---- MODULE Spec2Model ----
(***************************************************************************)
(* A model of the orchestration core of langgraph-ecommerce-agent:         *)
(*   src/tools.py       validator, query_database                          *)
(*   src/agent.py       manager_node, invoke_sub_agent, the role nodes,    *)
(*                      summarizer_node, synthesis_node, the workflow      *)
(*   src/sub_agents.py  the Reason/Act graph of get_sub_agent_graph        *)
(*                      and trends_node with its deterministic queries     *)
(*   src/main.py        the prompt loop                                    *)
(*                                                                         *)
(* Texts are sequences of atoms.  An atom stands for one fixed piece of    *)
(* text (its string is the atom's own name unless a comment says           *)
(* otherwise) and the text is the concatenation of its atoms, so that      *)
(* strip, upper, substring tests and the regular expressions of the code   *)
(* are computed on the sequence the way the code computes them on the      *)
(* string.                                                                 *)
(***************************************************************************)
EXTENDS Integers, Sequences, FiniteSets, TLC

VARIABLES
    sql,            \* validator: the argument of the call
    valResult,      \* validator: the returned string ("" before the call)
    last_content,   \* extraction: the text of the Role Agent's last message
    exOut,          \* extraction: what lines 105-124 of agent.py computed
    retryCall,      \* invoke_sub_agent: the arguments of one call and its result
    response,       \* router: the outcome of manager_chain.invoke
    routed,         \* router: what manager_node decided
    node,           \* graph: the node that runs next, "END", or "raised"
    messages,       \* graph: the channel state["messages"] (merged with operator.add)
    insights,       \* graph: state["insights"]
    errors,         \* graph: state["errors"]
    report,         \* graph: state["report"], a text
    next,           \* graph: state["next"], a text
    turn,           \* graph: the number of prompts entered so far
    invokes,        \* graph: the calls of agent.invoke in the current turn
    path,           \* graph: the nodes run in the current turn, in order
    genLog,         \* graph: the calls of llm.invoke by synthesis_node in the turn
    stored,         \* graph: what the checkpoint of the thread held in insights,
                    \* errors and report when the input of the turn was written
    seen,           \* graph: the numbers of history messages handed to the
                    \* Role Agent and to the Synthesizer in the turn, in order
    entered,        \* main.py: the lines read by input() so far
    handover,       \* graph: how a node is handed state["messages"]
    subPc,          \* Role Agent: the node that runs next, "END", "raised", or
                    \* "GraphRecursionError"
    subMessages,    \* Role Agent: the messages of the run
    subSteps,       \* Role Agent: the nodes run so far
    toolLog,        \* Role Agent: the tool invocations made so far, in order
    reasonLog       \* Role Agent: the calls of chain.invoke of each agent_node run

valVars == <<sql, valResult>>
exVars == <<last_content, exOut, retryCall>>
rtVars == <<response, routed>>
graphVars ==
    <<node, messages, insights, errors, report, next, turn, invokes, path, genLog,
      stored, seen, entered, handover>>

subVars == <<subPc, subMessages, subSteps, toolLog, reasonLog>>

vars == <<valVars, exVars, rtVars, graphVars, subVars>>

(***************************************************************************)
(* Bounds of the exploration.                                              *)
(***************************************************************************)
MaxSqlLen == 4
MaxWords == 4
MaxRouteLen == 3
MaxHistory == 15
MaxTurns == 2
MaxPrompts == 2
MaxRetries == 3
MaxSubSteps == 4

(***************************************************************************)
(* Text helpers.                                                           *)
(***************************************************************************)
SeqsUpTo(S, n) == UNION {[1..k -> S] : k \in 0..n}

\* pat occurs in s as a contiguous run: Python's `pat in s`
Contains(s, pat) ==
    \E i \in 1..(Len(s) - Len(pat) + 1) : SubSeq(s, i, i + Len(pat) - 1) = pat

RECURSIVE LStrip(_, _)
LStrip(s, ws) ==
    IF s # <<>> /\ Head(s) \in ws THEN LStrip(Tail(s), ws) ELSE s

RECURSIVE RStrip(_, _)
RStrip(s, ws) ==
    IF s # <<>> /\ s[Len(s)] \in ws THEN RStrip(SubSeq(s, 1, Len(s) - 1), ws) ELSE s

\* str.strip(): whitespace removed at both ends
Strip(s, ws) == RStrip(LStrip(s, ws), ws)

(***************************************************************************)
(* src/tools.py: validator.                                                *)
(* SQL atoms: keywords in upper and lower case, a space, a newline, the    *)
(* dataset namespace and an identifier.                                    *)
(***************************************************************************)
Namespace == "bigquery-public-data.thelook_ecommerce"
NAMESPACE == "BIGQUERY-PUBLIC-DATA.THELOOK_ECOMMERCE"

SqlWhitespace == {" ", "\n"}

SqlAtoms ==
    {"SELECT", "select", "DROP", "drop", "UPDATE", "JOIN", "ON",
     " ", "\n", Namespace, "x"}

\* the argument of a call: a string, or a value that is not a string
SqlInputs ==
    {[isStr |-> TRUE, toks |-> t] : t \in SeqsUpTo(SqlAtoms, MaxSqlLen)}
        \cup {[isStr |-> FALSE, toks |-> <<>>]}

NoSql == [isStr |-> TRUE, toks |-> <<>>]

\* str.upper() on one atom
UpperAtom(a) ==
    CASE a = "select" -> "SELECT"
      [] a = "drop" -> "DROP"
      [] a = Namespace -> NAMESPACE
      [] OTHER -> a

Upper(s) == [i \in DOMAIN s |-> UpperAtom(s[i])]

MutatingKeywords ==
    {"DROP", "DELETE", "TRUNCATE", "ALTER", "UPDATE", "INSERT", "CREATE"}

EmptySql == "Invalid: Empty SQL."
NotSelect == "Invalid: Must start with SELECT."
NonSelectStatement == "Invalid: Non-SELECT statements are not allowed."
JoinMissingOn == "Invalid: JOIN missing ON clause."
MissingNamespace == "Invalid: Must reference bigquery-public-data.thelook_ecommerce."
Valid == "Valid"

InvalidResults ==
    {EmptySql, NotSelect, NonSelectStatement, JoinMissingOn, MissingNamespace}

\* a variant that tests the namespace before the join condition
validator_namespace_first(q) ==
    IF ~q.isStr \/ Strip(q.toks, SqlWhitespace) = <<>> THEN EmptySql
    ELSE LET s == Upper(Strip(q.toks, SqlWhitespace)) IN
         IF s[1] # "SELECT" THEN NotSelect
         ELSE IF \E k \in MutatingKeywords : Contains(s, <<k, " ">>)
              THEN NonSelectStatement
         ELSE IF ~Contains(s, <<NAMESPACE>>) THEN MissingNamespace
         ELSE IF Contains(s, <<"JOIN">>) /\ ~Contains(s, <<" ", "ON", " ">>)
              THEN JoinMissingOn
         ELSE Valid

validator(q) ==
    IF ~q.isStr \/ Strip(q.toks, SqlWhitespace) = <<>> THEN EmptySql
    ELSE LET s == Upper(Strip(q.toks, SqlWhitespace)) IN
         IF s[1] # "SELECT" THEN NotSelect
         ELSE IF \E k \in MutatingKeywords : Contains(s, <<k, " ">>)
              THEN NonSelectStatement
         ELSE IF Contains(s, <<"JOIN">>) /\ ~Contains(s, <<" ", "ON", " ">>)
              THEN JoinMissingOn
         ELSE IF ~Contains(s, <<NAMESPACE>>) THEN MissingNamespace
         ELSE Valid

(***************************************************************************)
(* src/agent.py, invoke_sub_agent lines 105-124: the extraction of the     *)
(* structured answer from the last message of the Role Agent.              *)
(* Text atoms: the marker "Final Answer", ":", " ", "[", "]", the number   *)
(* "1", the letter "a", ObjAtom (a JSON object with an "insights" field    *)
(* holding the string s) and ReasoningAtom (a line "Reasoning: because").  *)
(***************************************************************************)
FinalAnswer == "Final Answer"
ObjAtom == "{\"insights\": \"s\"}"
StrAtom == "\"s\""
ReasoningAtom == "Reasoning: because\n"

\* the texts are built from these words
Words ==
    {<<FinalAnswer>>, <<":">>, <<" ">>, <<"[", "1", "]">>, <<"[">>, <<"]">>,
     <<"a">>, <<ObjAtom>>, <<ReasoningAtom>>}

RECURSIVE Flatten(_)
Flatten(ws) == IF ws = <<>> THEN <<>> ELSE Head(ws) \o Flatten(Tail(ws))

Texts == {Flatten(ws) : ws \in SeqsUpTo(Words, MaxWords)}

Min(S) == CHOOSE x \in S : \A y \in S : x <= y

\* the regular expression class [:\s]
Separators == {":", " "}
JsonWhitespace == {" "}

RECURSIVE SkipSeparators(_, _)
SkipSeparators(t, j) ==
    IF j <= Len(t) /\ t[j] \in Separators THEN SkipSeparators(t, j + 1) ELSE j

ClosingAfter(t, j) == {k \in (j + 1)..Len(t) : t[k] = "]"}

\* re.search(r'Final Answer[:\s]*(\[.*?\])', t, re.DOTALL).group(1); <<>> is no match
FinalMatch(t) ==
    LET starts == {i \in DOMAIN t :
                      /\ t[i] = FinalAnswer
                      /\ LET j == SkipSeparators(t, i + 1) IN
                           j <= Len(t) /\ t[j] = "[" /\ ClosingAfter(t, j) # {}}
    IN  IF starts = {} THEN <<>>
        ELSE LET j == SkipSeparators(t, Min(starts) + 1) IN
             SubSeq(t, j, Min(ClosingAfter(t, j)))

\* re.search(r'\[.*?\]', t, re.DOTALL).group(); <<>> is no match
ArrayMatch(t) ==
    LET starts == {j \in DOMAIN t : t[j] = "[" /\ ClosingAfter(t, j) # {}}
    IN  IF starts = {} THEN <<>>
        ELSE SubSeq(t, Min(starts), Min(ClosingAfter(t, Min(starts))))

\* json.loads: ok is FALSE when it raises; val holds the items of a list and,
\* for a value that is not a list, the one item str(value)
JsonFail == [ok |-> FALSE, type |-> "none", val |-> <<>>]

JsonLoads(s) ==
    LET c == Strip(s, JsonWhitespace) IN
    IF c = <<ObjAtom>> THEN [ok |-> TRUE, type |-> "dict", val |-> <<"s">>]
    ELSE IF c = <<StrAtom>> THEN [ok |-> TRUE, type |-> "str", val |-> <<"s">>]
    ELSE IF Len(c) >= 2 /\ c[1] = "[" /\ c[Len(c)] = "]"
         THEN LET inner == Strip(SubSeq(c, 2, Len(c) - 1), JsonWhitespace) IN
              IF inner = <<>> THEN [ok |-> TRUE, type |-> "list", val |-> <<>>]
              ELSE IF inner \in {<<"1">>, <<ObjAtom>>}
                   THEN [ok |-> TRUE, type |-> "list", val |-> inner]
              ELSE JsonFail
    ELSE JsonFail

\* a variant in which the first bracketed list of the text wins over the marker
SelectJson_first_array(t) ==
    IF ArrayMatch(t) # <<>> THEN [stage |-> 2, json_str |-> ArrayMatch(t)]
    ELSE IF FinalMatch(t) # <<>> THEN [stage |-> 1, json_str |-> FinalMatch(t)]
    ELSE LET parsed_full == JsonLoads(t) IN
         IF parsed_full.ok /\ parsed_full.type = "dict"
         THEN [stage |-> 3, json_str |-> <<StrAtom>>]
         ELSE [stage |-> 4, json_str |-> <<"[", "]">>]

\* lines 106-117: the text handed to json.loads and the stage that chose it
SelectJson(t) ==
    IF FinalMatch(t) # <<>> THEN [stage |-> 1, json_str |-> FinalMatch(t)]
    ELSE IF ArrayMatch(t) # <<>> THEN [stage |-> 2, json_str |-> ArrayMatch(t)]
    ELSE LET parsed_full == JsonLoads(t) IN
         IF parsed_full.ok /\ parsed_full.type = "dict"
         THEN [stage |-> 3, json_str |-> <<StrAtom>>]
         ELSE [stage |-> 4, json_str |-> <<"[", "]">>]

\* re.search(r'Reasoning[:\s]*([^.\n]*?)(?=\n|Final|$)', ...) on line 121
Cot(t) == IF \E i \in DOMAIN t : t[i] = ReasoningAtom THEN "because" ELSE ""

\* lines 105-124; raised: json.loads on line 118 raised inside the try of line 103
ExtractInsights(t) ==
    LET sel == SelectJson(t)
        parsed == JsonLoads(sel.json_str)
    IN  IF ~parsed.ok
        THEN [called |-> TRUE, raised |-> TRUE, stage |-> sel.stage,
              json_str |-> sel.json_str, insights_list |-> <<>>, cot |-> ""]
        ELSE [called |-> TRUE, raised |-> FALSE, stage |-> sel.stage,
              json_str |-> sel.json_str,
              insights_list |-> parsed.val,
              cot |-> Cot(t)]

NotExtracted ==
    [called |-> FALSE, raised |-> FALSE, stage |-> 0, json_str |-> <<>>,
     insights_list |-> <<>>, cot |-> ""]

(***************************************************************************)
(* src/agent.py: manager_node and the conditional edge after it.           *)
(* Routing atoms: the marker "next: " (with its space), the marker         *)
(* "Clarify:", "off_topic", the node names, a space and a word.            *)
(***************************************************************************)
NextMarker == "next: "
NextNoSpace == "next:"
ClarifyMarker == "Clarify:"

RoleNodes == {"segmentation", "trends", "geo", "product"}

\* the keys of the path map of workflow.add_conditional_edges("manager", ...)
ManagerPathMap == RoleNodes \cup {"synthesis"}

RouteAtoms ==
    {NextMarker, ClarifyMarker, "off_topic", " ", "zz"} \cup ManagerPathMap

RouteTexts == SeqsUpTo(RouteAtoms, MaxRouteLen)

\* the outcome of manager_chain.invoke: a response, or an exception
ManagerOutcomes(texts) ==
    {[raised |-> FALSE, content |-> t] : t \in texts}
        \cup {[raised |-> TRUE, content |-> <<>>]}

\* response.content.strip(): a marker "next: " at the end loses its space
StripContent(c) ==
    LET s == Strip(c, {" "}) IN
    IF s # <<>> /\ s[Len(s)] = NextMarker
    THEN SubSeq(s, 1, Len(s) - 1) \o <<NextNoSpace>>
    ELSE s

\* final_content.split("next: ")[1].strip()
AfterNext(fc) ==
    LET first == Min({i \in DOMAIN fc : fc[i] = NextMarker})
        later == {i \in (first + 1)..Len(fc) : fc[i] = NextMarker}
        last == IF later = {} THEN Len(fc) ELSE Min(later) - 1
    IN  Strip(SubSeq(fc, first + 1, last), {" "})

OffTopicInsight ==
    [agent |-> "Manager", text |-> <<"Off-topic prompt: Focus on e-commerce analysis.">>,
     cot |-> ""]

\* line 56-60: the response manager_node goes on with
ManagerResponse(out) ==
    IF out.raised THEN <<NextMarker, "synthesis">> ELSE out.content

\* a variant that appends no insight on an off-topic response
ManagerDecision_no_insight(out) ==
    LET final_content == StripContent(ManagerResponse(out)) IN
    IF Contains(final_content, <<NextMarker, "off_topic">>)
    THEN [next |-> <<"synthesis">>, insights |-> <<>>]
    ELSE IF Contains(final_content, <<ClarifyMarker>>)
    THEN [next |-> <<"synthesis">>, insights |-> <<>>]
    ELSE IF Contains(final_content, <<NextMarker>>)
    THEN [next |-> AfterNext(final_content), insights |-> <<>>]
    ELSE [next |-> <<"synthesis">>, insights |-> <<>>]

\* a variant that writes the whole response when it has no marker
ManagerDecision_no_default(out) ==
    LET final_content == StripContent(ManagerResponse(out)) IN
    IF Contains(final_content, <<NextMarker, "off_topic">>)
    THEN [next |-> <<"synthesis">>, insights |-> <<OffTopicInsight>>]
    ELSE IF Contains(final_content, <<ClarifyMarker>>)
    THEN [next |-> <<"synthesis">>, insights |-> <<>>]
    ELSE IF Contains(final_content, <<NextMarker>>)
    THEN [next |-> AfterNext(final_content), insights |-> <<>>]
    ELSE [next |-> final_content, insights |-> <<>>]

\* lines 61-80: the value written to state["next"] and the insights appended
ManagerDecision(out) ==
    LET final_content == StripContent(ManagerResponse(out)) IN
    IF Contains(final_content, <<NextMarker, "off_topic">>)
    THEN [next |-> <<"synthesis">>, insights |-> <<OffTopicInsight>>]
    ELSE IF Contains(final_content, <<ClarifyMarker>>)
    THEN [next |-> <<"synthesis">>, insights |-> <<>>]
    ELSE IF Contains(final_content, <<NextMarker>>)
    THEN [next |-> AfterNext(final_content), insights |-> <<>>]
    ELSE [next |-> <<"synthesis">>, insights |-> <<>>]

\* lines 247-251: the path map has a key for the value of state["next"];
\* for any other value the lookup raises KeyError out of the invocation
Dispatchable(n) == Len(n) = 1 /\ n[1] \in ManagerPathMap

NotRouted == [called |-> FALSE, next |-> <<>>, insights |-> <<>>]

(***************************************************************************)
(* src/agent.py: the state of the graph and the nodes of the workflow.     *)
(* A message is its type and the text of its content.                      *)
(***************************************************************************)
\* one attempt more than the role nodes ask for
max_retries_plus_one == 3 + 1

\* lines 150, 159, 168, 177: max_retries=3
max_retries == 3

HumanMessage(c) == [type |-> "human", content |-> c]
AIMessage(c) == [type |-> "ai", content |-> c]

LastN(s, n) == IF Len(s) <= n THEN s ELSE SubSeq(s, Len(s) - n + 1, Len(s))

\* state.py line 7: the update of a node is added to the stored history
MergeMessages(current, update) == current \o update

\* the list a node finds in state["messages"]: the list the channel holds,
\* or a copy of it; which of the two is a matter of the graph library, the
\* same for every node of a run
HandOvers == {"reference", "copy"}

\* a node that does state["messages"] += appended and returns its state: on
\* the channel's own list the channel holds the appended messages before the
\* returned list is added to it
MergeInPlace(current, appended, handed) ==
    IF handed = "reference"
    THEN MergeMessages(current \o appended, current \o appended)
    ELSE MergeMessages(current, current \o appended)

\* the routing responses the graph is explored with; the last but one is the
\* shape of the manager prompt's own example 'next: geo with message: ...'
GraphRouteTexts ==
    {<<NextMarker, r>> : r \in RoleNodes}
        \cup {<<NextMarker, "off_topic">>, <<ClarifyMarker, "zz">>, <<"zz">>,
              <<NextMarker, "geo", " ", "zz">>, <<>>}

\* the last messages a Role Agent is explored with: a list after the marker
\* with a reasoning line, a text with no list, a bracketed span that is not JSON
AgentTexts ==
    {<<ReasoningAtom, FinalAnswer, ":", "[", "1", "]">>, <<"a">>,
     <<FinalAnswer, "[", "a", "]">>}

\* what a Role Agent graph adds to the messages it was handed before its last
\* message: nothing, a tool call with its result, or the answer the follow-up
\* was asked after
ToolRun == <<AIMessage(<<>>), [type |-> "tool", content |-> <<"[", "]">>]>>
FollowUpRun == <<AIMessage(<<"a">>)>>
AgentRuns == {<<>>, ToolRun, FollowUpRun}

\* the outcome of agent.invoke: it raises, or returns the messages it was
\* handed, then before, then a last message with this content
AgentOutcomes ==
    {[raised |-> FALSE, before |-> <<>>, content |-> t] : t \in AgentTexts}
        \cup {[raised |-> FALSE, before |-> b,
                content |-> <<ReasoningAtom, FinalAnswer, ":", "[", "1", "]">>] :
                   b \in AgentRuns}
        \cup {[raised |-> TRUE, before |-> <<>>, content |-> <<>>]}

\* json.dumps({"insights": [{"text": i, "cot": cot} for i in insights_list]})
RECURSIVE DumpsPairs(_, _)
DumpsPairs(items, cot) ==
    IF items = <<>> THEN <<>> ELSE <<Head(items), cot>> \o DumpsPairs(Tail(items), cot)

DumpsInsights(items, cot) == <<"insights">> \o DumpsPairs(items, cot)

\* json.loads of such a content: [i["text"] for i in parsed["insights"]]
LoadsTexts(c) == [k \in 1..((Len(c) - 1) \div 2) |-> c[2 * k]]

\* parsed["insights"][0]["cot"] if parsed["insights"] else ""
LoadsFirstCot(c) == IF Len(c) >= 3 THEN c[3] ELSE ""

FallbackText == "Fallback: Unable to generate insights after retries."
ReflectionFallback == <<"Retry with corrected SQL.">>
ReflectionText == <<"reflection">>

\* str(agent) of lines 129 and 146: the agents are objects that define no
\* __str__, so the text names the object and not the role
str(agent) == "<" \o agent \o " object>"

\* a variant that records every success as one of the first attempt
SuccessEntry_first_attempt(agent, retry) ==
    [type |-> "success", agent |-> str(agent), retry |-> 0]

\* line 129
SuccessEntry(agent, retry) ==
    [type |-> "success", agent |-> str(agent), retry |-> retry]
FallbackEntry(agent, retries) ==
    [type |-> "fallback", agent |-> str(agent), retry |-> retries]

\* line 133: another attempt follows the failed attempt number retry
RetriesLeft(retry, retries) == retry < retries - 1

\* lines 102-147, from attempt number retry on, with max_retries = retries.
\* outcomes[k] is what agent.invoke does in attempt k, reflectOk[k] whether
\* reflect_chain.invoke returns after it failed.  raised: line 134 reads the
\* last message of an empty list inside the except branch
RECURSIVE Attempts(_, _, _, _, _, _, _)
Attempts(agent, retry, trimmed, errs, outcomes, reflectOk, retries) ==
    LET out == outcomes[retry]
        ex == ExtractInsights(out.content)
    IN  IF ~out.raised /\ ~ex.raised
        THEN [raised |-> FALSE,
              messages |-> trimmed \o out.before
                           \o <<AIMessage(DumpsInsights(ex.insights_list, ex.cot))>>,
              success |-> TRUE,
              errors |-> errs \o <<SuccessEntry(agent, retry)>>,
              invoked |-> retry + 1,
              reflections |-> 0,
              handed |-> <<Len(trimmed)>>]
        ELSE IF RetriesLeft(retry, retries) /\ trimmed = <<>>
        THEN [raised |-> TRUE,
              messages |-> trimmed,
              success |-> FALSE,
              errors |-> errs,
              invoked |-> retry + 1,
              reflections |-> 0,
              handed |-> <<Len(trimmed)>>]
        ELSE IF RetriesLeft(retry, retries)
        THEN LET rest == Attempts(agent, retry + 1,
                                  trimmed \o <<AIMessage(IF reflectOk[retry]
                                                         THEN ReflectionText
                                                         ELSE ReflectionFallback)>>,
                                  errs, outcomes, reflectOk, retries)
             IN  [rest EXCEPT !.handed = <<Len(trimmed)>> \o @,
                              !.reflections = @ + 1]
        ELSE [raised |-> FALSE,
              messages |-> trimmed \o <<AIMessage(<<"insights", FallbackText, "">>)>>,
              success |-> FALSE,
              errors |-> errs \o <<FallbackEntry(agent, retries)>>,
              invoked |-> retry + 1,
              reflections |-> 0,
              handed |-> <<Len(trimmed)>>]

\* lines 98-147
invoke_sub_agent(agent, msgs, errs, outcomes, reflectOk, retries) ==
    Attempts(agent, 0, LastN(msgs, 10), errs, outcomes, reflectOk, retries)

\* the attempt returns a list: agent.invoke returns and the extraction does
Succeeds(out) == ~out.raised /\ ~ExtractInsights(out.content).raised

\* what the attempts of one call do; no attempt follows one that succeeds,
\* so the outcomes listed after it are told as a repetition of it
AttemptOutcomes ==
    {o \in [0..(max_retries - 1) -> AgentOutcomes] :
        \A k \in 0..(max_retries - 2) : Succeeds(o[k]) => o[k + 1] = o[k]}

\* whether reflect_chain.invoke returns after each attempt that is not the last
ReflectOutcomes == [0..(max_retries - 2) -> BOOLEAN]

(***************************************************************************)
(* src/tools.py: query_database; src/sub_agents.py: the Reason/Act graph   *)
(* of get_sub_agent_graph (agent_node, tool_node, should_continue).        *)
(***************************************************************************)
\* df.to_json(orient="records") of rows that have a month key; "[rows]"
\* stands for the text of a result whose rows give no monthly series: no
\* rows at all ("[]"), or rows without a month or quarter key
MonthlyRows == "[monthly rows]"

\* what the backend does during one call of query_database: no client can be
\* built, the query fails, or the query returns rows without a month (or no
\* rows), or rows with one
BackendOutcomes == {"no_client", "query_fails", "rows", "monthly_rows"}

\* tools.py lines 8-15: get_bq_client() is called before the try; raised
\* tells whether the call raised, queries counts the calls of client.query;
\* the text returned is the rows the backend gives for this query
query_database(q, backend) ==
    IF backend = "no_client"
    THEN [raised |-> TRUE, output |-> <<>>, queries |-> 0]
    ELSE IF backend = "query_fails"
    THEN [raised |-> FALSE, output |-> <<"Error: ", "backend message">>, queries |-> 1]
    ELSE IF backend = "monthly_rows"
    THEN [raised |-> FALSE, output |-> <<MonthlyRows>>, queries |-> 1]
    ELSE [raised |-> FALSE, output |-> <<"[rows]">>, queries |-> 1]

ToolNames == {"query_database", "validator", "generate_final_answer"}

GoodSql == [isStr |-> TRUE, toks |-> <<"SELECT", " ", "x", " ", Namespace>>]
DropSql == [isStr |-> TRUE, toks |-> <<"DROP", " ", "x">>]

\* an id is a text: "c1" is <<"c1">>, "manual_trends_sql" is <<"manual_trends", "_sql">>
ToolCall(name, q, id) == [name |-> name, sql |-> q, id |-> id]

\* the responses of the model the Role Agent is explored with
SubResponses ==
    {[content |-> <<"a">>, tool_calls |-> <<>>],
     [content |-> <<FinalAnswer, ":", "[", "1", "]">>, tool_calls |-> <<>>],
     [content |-> <<>>, tool_calls |-> <<ToolCall("validator", GoodSql, <<"c1">>)>>],
     [content |-> <<>>, tool_calls |-> <<ToolCall("query_database", GoodSql, <<"c1">>)>>],
     [content |-> <<>>, tool_calls |-> <<ToolCall("validator", DropSql, <<"c1">>),
                                         ToolCall("query_database", DropSql, <<"c2">>)>>],
     [content |-> <<>>, tool_calls |-> <<ToolCall("generate_final_answer", NoSql, <<"c1">>)>>],
     [content |-> <<>>, tool_calls |-> <<ToolCall("search", NoSql, <<"c1">>)>>]}

\* the most tool calls a response asks for
MaxCalls == CHOOSE n \in 0..Cardinality(SubResponses) :
               /\ \A r \in SubResponses : Len(r.tool_calls) <= n
               /\ \E r \in SubResponses : Len(r.tool_calls) = n

\* chain.invoke: it raises, or returns a response
ModelOutcomes ==
    {[raised |-> FALSE, msg |-> r] : r \in SubResponses}
        \cup {[raised |-> TRUE, msg |-> [content |-> <<>>, tool_calls |-> <<>>]]}

SubAI(r) == [type |-> "ai", content |-> r.content, tool_calls |-> r.tool_calls,
             tool_call_id |-> <<>>]
SubTool(c, id) == [type |-> "tool", content |-> c, tool_calls |-> <<>>,
                   tool_call_id |-> id]
SubHuman(c) == [type |-> "human", content |-> c, tool_calls |-> <<>>,
                tool_call_id |-> <<>>]

\* a variant that asks again whenever the response has no tool call
Degenerate_no_tool_call(r) == r.tool_calls = <<>>

\* lines 65-67: neither a tool call nor "final answer:" in the lowered content
Degenerate(r) == r.tool_calls = <<>> /\ ~Contains(r.content, <<FinalAnswer, ":">>)

\* lines 87-88 for one tool call: the tool is looked up by name (next() on
\* no match raises StopIteration) and invoked
InvokeTool(call, backend) ==
    IF call.name \notin ToolNames
    THEN [name |-> call.name, sql |-> call.sql, raised |-> TRUE, output |-> <<>>,
          queries |-> 0]
    ELSE IF call.name = "validator"
    THEN [name |-> call.name, sql |-> call.sql, raised |-> FALSE,
          output |-> <<validator(call.sql)>>, queries |-> 0]
    ELSE IF call.name = "query_database"
    THEN [name |-> call.name, sql |-> call.sql,
          raised |-> query_database(call.sql, backend).raised,
          output |-> query_database(call.sql, backend).output,
          queries |-> query_database(call.sql, backend).queries]
    ELSE [name |-> call.name, sql |-> call.sql, raised |-> FALSE,
          output |-> <<"answer">>, queries |-> 0]

\* lines 85-90: the calls are run in order until one raises; done is the
\* invocations made, appended the tool messages so far
RECURSIVE RunTools(_, _, _, _)
RunTools(calls, backends, k, acc) ==
    IF k > Len(calls) THEN acc
    ELSE LET inv == InvokeTool(calls[k], backends[k]) IN
         IF inv.raised
         THEN [raised |-> TRUE, done |-> acc.done \o <<inv>>, appended |-> acc.appended]
         ELSE RunTools(calls, backends, k + 1,
                       [raised |-> FALSE, done |-> acc.done \o <<inv>>,
                        appended |-> acc.appended \o <<SubTool(inv.output, calls[k].id)>>])

(***************************************************************************)
(* The validator called once on an argument.                               *)
(***************************************************************************)
ValidatorIdle == sql = NoSql /\ valResult = ""
NoCall == [pc |-> "idle"]
ExtractIdle == last_content = <<>> /\ exOut = NotExtracted /\ retryCall = NoCall
RouterIdle == response = [raised |-> FALSE, content |-> <<>>] /\ routed = NotRouted
NothingStored == [insights |-> <<>>, errors |-> <<>>, report |-> <<>>]

GraphIdle ==
    /\ node = "idle" /\ messages = <<>> /\ insights = <<>> /\ errors = <<>>
    /\ report = <<>> /\ next = <<>> /\ turn = 0 /\ invokes = 0
    /\ path = <<>> /\ genLog = <<>>
    /\ stored = NothingStored /\ seen = <<>> /\ entered = <<>>
    /\ handover = "idle"
SubIdle ==
    /\ subPc = "idle" /\ subMessages = <<>> /\ subSteps = 0 /\ toolLog = <<>>
    /\ reasonLog = <<>>

InitValidator ==
    /\ sql \in SqlInputs
    /\ valResult = ""
    /\ ExtractIdle
    /\ RouterIdle
    /\ GraphIdle
    /\ SubIdle

CallValidator ==
    /\ valResult = ""
    /\ valResult' = validator(sql)
    /\ UNCHANGED <<sql, exVars, rtVars, graphVars, subVars>>

NextValidator == CallValidator

SpecValidator == InitValidator /\ [][NextValidator]_vars

(***************************************************************************)
(* The extraction run once on the text of a last message.                  *)
(***************************************************************************)
InitExtract ==
    /\ last_content \in Texts
    /\ exOut = NotExtracted
    /\ retryCall = NoCall
    /\ ValidatorIdle
    /\ RouterIdle
    /\ GraphIdle
    /\ SubIdle

CallExtract ==
    /\ ~exOut.called
    /\ exOut' = ExtractInsights(last_content)
    /\ UNCHANGED <<last_content, retryCall, valVars, rtVars, graphVars, subVars>>

NextExtract == CallExtract

SpecExtract == InitExtract /\ [][NextExtract]_vars

(***************************************************************************)
(* invoke_sub_agent called once, with max_retries from 1 to MaxRetries.    *)
(***************************************************************************)
\* state["messages"] of the retryCall, as a role node passes it: the user's
\* message and the response manager_node added (lines 52-54 send an empty
\* history to synthesis), or a history longer than the 10 messages kept
RetryHistories ==
    {<<HumanMessage(<<"q">>), AIMessage(<<NextMarker, "trends">>)>>,
     [k \in 1..11 |-> IF k % 2 = 1 THEN HumanMessage(<<"q", ToString(k)>>)
                                   ELSE AIMessage(<<NextMarker, "trends">>)]}

\* state["errors"] of the retryCall: empty, or with an entry of an earlier retryCall
RetryErrors == {<<>>, <<SuccessEntry("geo_agent", 0)>>}

InitRetry ==
    /\ \E retries \in 1..MaxRetries :
        \E msgs \in RetryHistories, errs \in RetryErrors,
           outcomes \in [0..(retries - 1) -> AgentOutcomes],
           reflectOk \in [0..(retries - 2) -> BOOLEAN] :
            retryCall = [pc |-> "called", retries |-> retries, messages |-> msgs,
                    errors |-> errs, outcomes |-> outcomes, reflectOk |-> reflectOk]
    /\ last_content = <<>>
    /\ exOut = NotExtracted
    /\ ValidatorIdle
    /\ RouterIdle
    /\ GraphIdle
    /\ SubIdle

\* agent.py lines 98-147: result is what the retryCall returned, unless it raised
call_invoke_sub_agent ==
    /\ retryCall.pc = "called"
    /\ LET r == invoke_sub_agent("trends_agent", retryCall.messages, retryCall.errors, retryCall.outcomes,
                                 retryCall.reflectOk, retryCall.retries)
       IN  retryCall' = [pc |-> IF r.raised THEN "raised" ELSE "returned",
                    retries |-> retryCall.retries, messages |-> retryCall.messages,
                    errors |-> retryCall.errors, outcomes |-> retryCall.outcomes,
                    reflectOk |-> retryCall.reflectOk, result |-> r]
    /\ UNCHANGED <<last_content, exOut, valVars, rtVars, graphVars, subVars>>

NextRetry == call_invoke_sub_agent

SpecRetry == InitRetry /\ [][NextRetry]_vars

(***************************************************************************)
(* manager_node run once on a routing response.                            *)
(***************************************************************************)
InitRouter ==
    /\ response \in ManagerOutcomes(RouteTexts)
    /\ routed = NotRouted
    /\ ValidatorIdle
    /\ ExtractIdle
    /\ GraphIdle
    /\ SubIdle

CallManager ==
    /\ ~routed.called
    /\ routed' = [called |-> TRUE,
                  next |-> ManagerDecision(response).next,
                  insights |-> ManagerDecision(response).insights]
    /\ UNCHANGED <<response, valVars, exVars, graphVars, subVars>>

NextRouter == CallManager

SpecRouter == InitRouter /\ [][NextRouter]_vars

(***************************************************************************)
(* A session of main.py: every prompt is one invocation of the graph on    *)
(* the thread of the session.                                              *)
(***************************************************************************)
Prompt == <<"q">>

InitGraph ==
    /\ node = "prompt"
    /\ messages = <<>>
    /\ insights = <<>>
    /\ errors = <<>>
    /\ report = <<>>
    /\ next = <<>>
    /\ turn = 0
    /\ invokes = 0
    /\ path = <<>>
    /\ genLog = <<>>
    /\ stored = NothingStored
    /\ seen = <<>>
    /\ entered = <<>>
    /\ handover \in HandOvers
    /\ ValidatorIdle
    /\ ExtractIdle
    /\ RouterIdle
    /\ SubIdle

\* a variant whose input leaves insights, errors and report to the checkpoint
NewTurn_keeps_checkpoint ==
    /\ node \in {"prompt", "END", "raised"}
    /\ Len(messages) < MaxHistory
    /\ turn < MaxTurns
    /\ turn' = turn + 1
    /\ messages' = MergeMessages(messages, <<HumanMessage(Prompt \o <<ToString(turn + 1)>>)>>)
    /\ next' = <<>>
    /\ invokes' = 0
    /\ path' = <<>>
    /\ genLog' = <<>>
    /\ stored' = [insights |-> insights, errors |-> errors, report |-> report]
    /\ seen' = <<>>
    /\ entered' = Append(entered, Prompt \o <<ToString(turn + 1)>>)
    /\ response' = [raised |-> FALSE, content |-> <<>>]
    /\ routed' = NotRouted
    /\ node' = "manager"
    /\ UNCHANGED <<insights, errors, report, handover, valVars, exVars, subVars>>

\* main.py lines 46-58: app.invoke(initial_state, config); the input is
\* written over the checkpoint of the thread, messages through the reducer
StartTurn(prompt) ==
    /\ turn' = turn + 1
    /\ messages' = MergeMessages(messages, <<HumanMessage(prompt)>>)
    /\ insights' = <<>>
    /\ errors' = <<>>
    /\ report' = <<>>
    /\ next' = <<>>
    /\ invokes' = 0
    /\ path' = <<>>
    /\ genLog' = <<>>
    /\ stored' = [insights |-> insights, errors |-> errors, report |-> report]
    /\ seen' = <<>>
    /\ response' = [raised |-> FALSE, content |-> <<>>]
    /\ routed' = NotRouted
    /\ node' = "manager"
    /\ UNCHANGED <<handover, valVars, exVars, subVars>>

\* main.py lines 38-58 for a prompt that is neither empty nor quit
NewTurn ==
    /\ node \in {"prompt", "END", "raised"}
    /\ Len(messages) < MaxHistory
    /\ turn < MaxTurns
    /\ StartTurn(Prompt \o <<ToString(turn + 1)>>)
    /\ entered' = Append(entered, Prompt \o <<ToString(turn + 1)>>)

\* manager_node and the conditional edge after it
ManagerStep(texts) ==
    /\ node = "manager"
    /\ \E out \in ManagerOutcomes(texts) :
        LET d == IF messages = <<>>
                 THEN [next |-> <<"synthesis">>, insights |-> <<>>]
                 ELSE ManagerDecision(out)
            appended == IF messages = <<>> THEN <<>>
                        ELSE <<AIMessage(ManagerResponse(out))>>
        IN  /\ response' = out
            /\ routed' = [called |-> TRUE, next |-> d.next, insights |-> d.insights]
            /\ IF Dispatchable(d.next)
               THEN /\ next' = d.next
                    /\ insights' = insights \o d.insights
                    /\ messages' = MergeInPlace(messages, appended, handover)
                    /\ node' = d.next[1]
                    /\ UNCHANGED <<errors, report, turn, invokes>>
               ELSE /\ node' = "raised"
                    /\ UNCHANGED <<messages, insights, errors, report, next, turn, invokes>>
    /\ path' = Append(path, "manager")
    /\ UNCHANGED <<genLog, stored, seen, entered, handover, valVars, exVars, subVars>>

manager_node == ManagerStep(GraphRouteTexts)

\* a variant that appends an insight only when the list has records
RoleStep_skips_empty(name, agent, attempts, reflects) ==
    /\ node = name
    /\ \E outcomes \in attempts, reflectOk \in reflects :
        LET r == invoke_sub_agent(name \o "_agent", messages, errors, outcomes, reflectOk,
                                  max_retries)
            content == r.messages[Len(r.messages)].content
            merged == MergeMessages(messages, LastN(r.messages, 5))
        IN  /\ insights' = IF r.success /\ LoadsTexts(content) # <<>>
                           THEN insights \o <<[agent |-> agent,
                                               text |-> LoadsTexts(content),
                                               cot |-> LoadsFirstCot(content)]>>
                           ELSE insights
            /\ errors' = r.errors
            /\ invokes' = invokes + r.invoked
            /\ seen' = seen \o [k \in DOMAIN r.handed |->
                                    [to |-> agent, count |-> r.handed[k]]]
            /\ next' = <<"synthesis">>
            /\ messages' = merged
            /\ node' = IF Len(merged) > 10 THEN "summarizer" ELSE "synthesis"
    /\ path' = Append(path, name)
    /\ UNCHANGED <<report, turn, genLog, stored, entered, handover,
                   valVars, exVars, rtVars, subVars>>

\* lines 149-183: the four role nodes differ in the agent and its name only
RoleStep(name, agent, attempts, reflects) ==
    /\ node = name
    /\ \E outcomes \in attempts, reflectOk \in reflects :
        LET r == invoke_sub_agent(name \o "_agent", messages, errors, outcomes, reflectOk,
                                  max_retries)
            content == IF r.raised THEN <<>> ELSE r.messages[Len(r.messages)].content
            merged == IF r.raised THEN messages
                      ELSE MergeMessages(messages, LastN(r.messages, 5))
        IN  /\ insights' = IF r.success
                           THEN insights \o <<[agent |-> agent,
                                               text |-> LoadsTexts(content),
                                               cot |-> LoadsFirstCot(content)]>>
                           ELSE insights
            /\ errors' = r.errors
            /\ invokes' = invokes + r.invoked
            /\ seen' = seen \o [k \in DOMAIN r.handed |->
                                    [to |-> agent, count |-> r.handed[k]]]
            /\ next' = IF r.raised THEN next ELSE <<"synthesis">>
            /\ messages' = merged
            /\ node' = IF r.raised THEN "raised"
                       ELSE IF Len(merged) > 10 THEN "summarizer" ELSE "synthesis"
    /\ path' = Append(path, name)
    /\ UNCHANGED <<report, turn, genLog, stored, entered, handover,
                   valVars, exVars, rtVars, subVars>>

RoleNode(name, agent) == RoleStep(name, agent, AttemptOutcomes, ReflectOutcomes)

segmentation_node == RoleNode("segmentation", "Segmentation")
trends_node == RoleNode("trends", "Trends")
geo_node == RoleNode("geo", "Geo")
product_node == RoleNode("product", "Product")

\* a variant that leaves its summary in the report as well
summarizer_node_writes_report ==
    /\ node = "summarizer"
    /\ \E ok \in BOOLEAN :
        LET summary == AIMessage(IF ok THEN <<"summary">> ELSE <<"Summary unavailable.">>)
            appended == IF Len(messages) > 10 THEN <<summary>> ELSE <<>>
        IN  /\ messages' = MergeInPlace(messages, appended, handover)
            /\ report' = summary.content
    /\ node' = "synthesis"
    /\ path' = Append(path, "summarizer")
    /\ UNCHANGED <<insights, errors, next, turn, invokes, genLog,
                   stored, seen, entered, handover,
                   valVars, exVars, rtVars, subVars>>

\* lines 192-200
summarizer_node ==
    /\ node = "summarizer"
    /\ \E ok \in BOOLEAN :
        LET summary == AIMessage(IF ok THEN <<"summary">> ELSE <<"Summary unavailable.">>)
            appended == IF Len(messages) > 10 THEN <<summary>> ELSE <<>>
        IN  messages' = MergeInPlace(messages, appended, handover)
    /\ node' = "synthesis"
    /\ path' = Append(path, "summarizer")
    /\ UNCHANGED <<insights, errors, report, next, turn, invokes, genLog,
                   stored, seen, entered, handover,
                   valVars, exVars, rtVars, subVars>>

\* the fixed texts of lines 223 and 235 (their dash is written - here)
NoInsightsPrefix ==
    "No insights generated-check manager delegation or sub-agent output. Errors: "
SynthesisFailedPrefix == "Synthesis failed-raw insights: "
ReasoningTraceHeader == "\n\n## Reasoning Trace\n"

\* json.dumps of the errors: one atom per entry between the brackets
DumpsErrors(errs) == <<"[">> \o [i \in DOMAIN errs |-> errs[i].type] \o <<"]">>

\* line 226: the insights without their cot
RECURSIVE DumpsRecords(_)
DumpsRecords(ins) ==
    IF ins = <<>> THEN <<>>
    ELSE <<Head(ins).agent>> \o Head(ins).text \o DumpsRecords(Tail(ins))

\* line 228: the cot of the insights that have one
RECURSIVE FormattedCot(_)
FormattedCot(ins) ==
    IF ins = <<>> THEN <<>>
    ELSE (IF Head(ins).cot # "" THEN <<Head(ins).cot>> ELSE <<>>)
             \o FormattedCot(Tail(ins))

\* the outcome of llm.invoke(formatted_prompt): it raises, or returns a text
GenerationOutcomes ==
    {[raised |-> TRUE, content |-> <<>>], [raised |-> FALSE, content |-> <<>>],
     [raised |-> FALSE, content |-> <<"narrative">>]}

\* lines 224-229: synth_prompt filled with the insights without their cot,
\* the last five messages, the errors and the cot of the insights
formatted_prompt(ins, msgs, errs) ==
    <<"Synthesize insights from ", "[">> \o DumpsRecords(ins) \o <<"]", " for ">>
        \o Flatten([i \in DOMAIN LastN(msgs, 5) |-> LastN(msgs, 5)[i].content])
        \o <<"If errors (">> \o DumpsErrors(errs)
        \o <<"Include reasoning if present: ">> \o FormattedCot(ins)

\* a variant that returns the generated text without the trace appended
SynthesisReport_bare_content(ins, errs, gen) ==
    IF ins = <<>>
    THEN [report |-> <<NoInsightsPrefix>> \o DumpsErrors(errs), calls |-> <<>>]
    ELSE IF gen.raised
    THEN [report |-> <<SynthesisFailedPrefix, "[">> \o DumpsRecords(ins) \o <<"]">>,
          calls |-> <<"raised">>]
    ELSE [report |-> gen.content, calls |-> <<"returned">>]

\* a variant that asks for a narrative also when there are no insights
SynthesisReport_always_generates(ins, errs, gen) ==
    IF gen.raised
    THEN [report |-> IF ins = <<>> THEN <<NoInsightsPrefix>> \o DumpsErrors(errs)
                     ELSE <<SynthesisFailedPrefix, "[">> \o DumpsRecords(ins) \o <<"]">>,
          calls |-> <<"raised">>]
    ELSE [report |-> gen.content \o <<ReasoningTraceHeader>> \o FormattedCot(ins),
          calls |-> <<"returned">>]

\* a variant whose fallback report also carries the reasoning traces
SynthesisReport_raw_with_cot(ins, errs, gen) ==
    IF ins = <<>>
    THEN [report |-> <<NoInsightsPrefix>> \o DumpsErrors(errs), calls |-> <<>>]
    ELSE IF gen.raised
    THEN [report |-> <<SynthesisFailedPrefix, "[">> \o DumpsRecords(ins)
                         \o FormattedCot(ins) \o <<"]">>,
          calls |-> <<"raised">>]
    ELSE [report |-> gen.content \o <<ReasoningTraceHeader>> \o FormattedCot(ins),
          calls |-> <<"returned">>]

\* lines 221-235: the report, and the calls of llm.invoke made for it
SynthesisReport(ins, errs, gen) ==
    IF ins = <<>>
    THEN [report |-> <<NoInsightsPrefix>> \o DumpsErrors(errs), calls |-> <<>>]
    ELSE IF gen.raised
    THEN [report |-> <<SynthesisFailedPrefix, "[">> \o DumpsRecords(ins) \o <<"]">>,
          calls |-> <<"raised">>]
    ELSE [report |-> gen.content \o <<ReasoningTraceHeader>> \o FormattedCot(ins),
          calls |-> <<"returned">>]

\* a variant that empties errors once they are in the report
SynthesisStep_clears_errors(generations) ==
    /\ node = "synthesis"
    /\ \E gen \in generations :
        /\ report' = SynthesisReport(insights, errors, gen).report
        /\ genLog' = genLog \o SynthesisReport(insights, errors, gen).calls
    /\ messages' = MergeMessages(messages, messages)
    /\ node' = "END"
    /\ path' = Append(path, "synthesis")
    /\ seen' = IF insights = <<>> THEN seen
               ELSE Append(seen, [to |-> "synthesis", count |-> Len(LastN(messages, 5)),
                                  prompt |-> formatted_prompt(insights, messages, errors)])
    /\ errors' = <<>>
    /\ UNCHANGED <<insights, next, turn, invokes, stored, entered, handover,
                   valVars, exVars, rtVars, subVars>>

\* lines 220-236
SynthesisStep(generations) ==
    /\ node = "synthesis"
    /\ \E gen \in generations :
        /\ report' = SynthesisReport(insights, errors, gen).report
        /\ genLog' = genLog \o SynthesisReport(insights, errors, gen).calls
    /\ messages' = MergeMessages(messages, messages)
    /\ node' = "END"
    /\ path' = Append(path, "synthesis")
    /\ seen' = IF insights = <<>> THEN seen
               ELSE Append(seen, [to |-> "synthesis", count |-> Len(LastN(messages, 5)),
                                  prompt |-> formatted_prompt(insights, messages, errors)])
    /\ UNCHANGED <<insights, errors, next, turn, invokes, stored, entered, handover,
                   valVars, exVars, rtVars, subVars>>

synthesis_node == SynthesisStep(GenerationOutcomes)

Next ==
    \/ NewTurn
    \/ manager_node
    \/ segmentation_node
    \/ trends_node
    \/ geo_node
    \/ product_node
    \/ summarizer_node
    \/ synthesis_node

Spec == InitGraph /\ [][Next]_vars

(***************************************************************************)
(* One run of a Role Agent graph on a question.                            *)
(***************************************************************************)
InitSub ==
    /\ subPc = "agent"
    /\ subMessages = <<SubHuman(Prompt)>>
    /\ subSteps = 0
    /\ toolLog = <<>>
    /\ reasonLog = <<>>
    /\ ValidatorIdle
    /\ ExtractIdle
    /\ RouterIdle
    /\ GraphIdle

\* lines 69-74: the text added to the question for the second call
FollowUp == "\n\nFollow-up: Use tools now."

\* sub_agents.py lines 54-82 and should_continue, lines 92-95, with the
\* outcomes chain.invoke may have and the number of steps the run may take
AgentStep(outcomes, limit) ==
    /\ subPc = "agent"
    /\ subSteps < limit
    /\ \E first \in outcomes, second \in outcomes :
        LET twice == ~first.raised /\ Degenerate(first.msg)
            outputs == IF twice THEN <<SubAI(first.msg), SubAI(second.msg)>>
                       ELSE <<SubAI(first.msg)>>
            last == outputs[Len(outputs)]
            question == subMessages[Len(subMessages)].content
        IN  /\ IF first.raised \/ (twice /\ second.raised)
               THEN subPc' = "raised" /\ UNCHANGED subMessages
               ELSE /\ subMessages' = subMessages \o outputs
                    /\ subPc' = IF last.tool_calls # <<>> THEN "tool" ELSE "END"
            /\ reasonLog' = Append(reasonLog,
                    [calls |-> IF twice THEN <<first, second>> ELSE <<first>>,
                     inputs |-> IF twice THEN <<question, question \o <<FollowUp>>>>
                                ELSE <<question>>,
                     followups |-> IF twice THEN 1 ELSE 0,
                     goto |-> subPc'])
    /\ subSteps' = subSteps + 1
    /\ UNCHANGED <<toolLog, valVars, exVars, rtVars, graphVars>>

agent_node == AgentStep(ModelOutcomes, MaxSubSteps)

\* sub_agents.py lines 84-90 and the edge tool -> agent
ToolStep(limit) ==
    /\ subPc = "tool"
    /\ subSteps < limit
    /\ \E backends \in [1..MaxCalls -> BackendOutcomes] :
        LET calls == subMessages[Len(subMessages)].tool_calls
            run == RunTools(calls, backends, 1,
                            [raised |-> FALSE, done |-> <<>>, appended |-> <<>>])
        IN  /\ toolLog' = toolLog \o run.done
            /\ IF run.raised
               THEN subPc' = "raised" /\ UNCHANGED subMessages
               ELSE subPc' = "agent" /\ subMessages' = subMessages \o run.appended
    /\ subSteps' = subSteps + 1
    /\ UNCHANGED reasonLog
    /\ UNCHANGED <<valVars, exVars, rtVars, graphVars>>

tool_node == ToolStep(MaxSubSteps)

NextSub == agent_node \/ tool_node

SpecSub == InitSub /\ [][NextSub]_vars

(***************************************************************************)
(* One run of a Role Agent graph under the step limit invoke_sub_agent     *)
(* passes to it, with a model that asks for the validator, gives its final *)
(* answer, or fails.                                                       *)
(***************************************************************************)
\* agent.py line 104: config={"recursion_limit": 50}
recursion_limit == 50

LoopOutcomes ==
    {[raised |-> FALSE,
      msg |-> [content |-> <<>>, tool_calls |-> <<ToolCall("validator", GoodSql, <<"c1">>)>>]],
     [raised |-> FALSE,
      msg |-> [content |-> <<FinalAnswer, ":", "[", "1", "]">>, tool_calls |-> <<>>]],
     [raised |-> TRUE, msg |-> [content |-> <<>>, tool_calls |-> <<>>]]}

agent_loop == AgentStep(LoopOutcomes, recursion_limit)
tool_loop == ToolStep(recursion_limit)

\* the limit is reached with a node still to run: agent.invoke raises
\* GraphRecursionError and returns no state
out_of_steps ==
    /\ subPc \in {"agent", "tool"}
    /\ subSteps = recursion_limit
    /\ subPc' = "GraphRecursionError"
    /\ UNCHANGED <<subMessages, subSteps, toolLog, reasonLog, valVars, exVars, rtVars, graphVars>>

NextBudget == agent_loop \/ tool_loop \/ out_of_steps

SpecBudget == InitSub /\ [][NextBudget]_vars

(***************************************************************************)
(* src/sub_agents.py: trends_node, the run of the trends graph followed by *)
(* the deterministic queries.  A question is a text of words and spaces.   *)
(***************************************************************************)
LowerAtom(a) ==
    CASE a = "DROP" -> "drop"
      [] a = "TABLE" -> "table"
      [] a = "SELECT" -> "select"
      [] a = "Analyze" -> "analyze"
      [] a = "Identify" -> "identify"
      [] a = "Top" -> "top"
      [] a = "Sales" -> "sales"
      [] a = "Trend" -> "trend"
      [] a = "Trends" -> "trends"
      [] a = "Category" -> "category"
      [] a = "Categories" -> "categories"
      [] a = "Under" -> "under"
      [] a = "China" -> "china"
      [] a = "Japan" -> "japan"
      [] a = "USA" -> "usa"
      [] a = "U.S." -> "u.s."
      [] a = "US" -> "us"
      [] a = "Quit" -> "quit"
      [] a = "QUIT" -> "quit"
      [] a = "Exit" -> "exit"
      [] OTHER -> a

Lower(s) == [i \in DOMAIN s |-> LowerAtom(s[i])]

\* the questions trends_node is explored with
TrendQuestions ==
    {<<"DROP", " ", "TABLE", " ", "orders">>,
     <<"Analyze", " ", "sales", " ", "in", " ", "China", " ", "2023">>,
     <<"sales", " ", "trends">>,
     <<"top", " ", "categories", " ", "under", " ", "2024">>,
     Prompt}

\* \b on both sides of the atom at position i: its neighbours are spaces
IsWord(t, i) ==
    /\ i = 1 \/ t[i - 1] = " "
    /\ i = Len(t) \/ t[i + 1] = " "

DdlWords == {"select", "insert", "update", "delete", "drop", "alter", "create"}

\* line 287
ddl_like(question) ==
    \E i \in DOMAIN question : Lower(question)[i] \in DdlWords /\ IsWord(question, i)

\* text.startswith("analyze")
StartsWithAnalyze(question) == question # <<>> /\ Lower(question)[1] = "analyze"

\* line 289
analyze_like(question) ==
    StartsWithAnalyze(question)
        \/ \E i \in DOMAIN question : Lower(question)[i] \in {"trend", "trends"}

YearAtoms == {"2023", "2024"}
ContextCountries == <<"China", "Japan">>
None == "None"

\* lines 121-136
_extract_year_and_country(question) ==
    LET text == Lower(question)
        years == {i \in DOMAIN text : text[i] \in YearAtoms /\ IsWord(text, i)}
        us == \E i \in DOMAIN text : text[i] \in {"usa", "u.s.", "us"} /\ IsWord(text, i)
        found == {k \in DOMAIN ContextCountries :
                     \E i \in DOMAIN text : text[i] = LowerAtom(ContextCountries[k])}
    IN  [year |-> IF years = {} THEN None ELSE text[Min(years)],
         country |-> IF us THEN "United States"
                     ELSE IF found = {} THEN None
                     ELSE ContextCountries[Min(found)]]

\* lines 291-293: info.get("year") or 2022, info.get("country") or "United States"
YearOf(question) ==
    IF _extract_year_and_country(question).year = None THEN "2022"
    ELSE _extract_year_and_country(question).year
CountryOf(question) ==
    IF _extract_year_and_country(question).country = None THEN "United States"
    ELSE _extract_year_and_country(question).country

\* lines 138-142: "under", optional spaces, digits
_parse_under_threshold(question) ==
    LET text == Lower(question)
        hits == {i \in DOMAIN text :
                    /\ text[i] = "under"
                    /\ \E j \in (i + 1)..Len(text) :
                        /\ text[j] \in YearAtoms
                        /\ \A m \in (i + 1)..(j - 1) : text[m] = " "}
    IN  IF hits = {} THEN None ELSE text[Min({j \in DOMAIN text : j > Min(hits) /\ text[j] \in YearAtoms})]

\* the texts of the queries: a SELECT over the namespace with joins that have
\* ON, what is selected, the year and the country of the WHERE clause
QueryText(what, year, country) ==
    [isStr |-> TRUE,
     toks |-> <<"SELECT", " ", what, " ", Namespace, " ", "JOIN", " ", "ON", " ",
                year, " ", country>>]

\* lines 144-161
_build_trends_sql(year, country) == QueryText("month", year, country)

\* lines 163-189: without a country there is no filter on the country
_build_categories_sql_optional_country(year, country) ==
    IF country = None
    THEN [isStr |-> TRUE,
          toks |-> <<"SELECT", " ", "category", " ", Namespace, " ", "JOIN", " ", "ON",
                     " ", year>>]
    ELSE QueryText("category", year, country)

\* lines 246-253 with prefix None
_has_tool_message(msgs) == \E i \in DOMAIN msgs : msgs[i].type = "tool"

\* a variant that looks at the rows only, not at the ids and the SQL texts
_has_timeseries_rows_only(msgs) ==
    \E i \in DOMAIN msgs :
        msgs[i].type = "tool" /\ msgs[i].content = <<MonthlyRows>>

\* lines 255-273
_has_timeseries(msgs) ==
    \E i \in DOMAIN msgs :
        /\ msgs[i].type = "tool"
        /\ \/ msgs[i].tool_call_id # <<>> /\ msgs[i].tool_call_id[1] = "manual_trends"
           \/ /\ msgs[i].tool_call_id # <<>>
              /\ msgs[i].tool_call_id[Len(msgs[i].tool_call_id)] = "_sql"
              /\ "month" \in {msgs[i].content[k] : k \in DOMAIN msgs[i].content}
           \/ msgs[i].content = <<MonthlyRows>>

\* lines 191-205: the messages appended, the invocations made, the value
\* returned (<<>> for None), and whether query_database raised
_run_validated_sql_and_append(q, tool_id_prefix, backend) ==
    LET val == validator(q)
        run == query_database(q, backend)
        said == <<SubTool(q.toks, <<tool_id_prefix, "_sql">>),
                  SubTool(<<val>>, <<tool_id_prefix, "_validator">>)>>
        validated == [name |-> "validator", sql |-> q, raised |-> FALSE,
                      output |-> <<val>>, queries |-> 0]
        queried == [name |-> "query_database", sql |-> q, raised |-> run.raised,
                    output |-> run.output, queries |-> run.queries]
    IN  IF val # Valid
        THEN [raised |-> FALSE, appended |-> said, done |-> <<validated>>, out |-> <<>>]
        ELSE IF run.raised
        THEN [raised |-> TRUE, appended |-> said, done |-> <<validated, queried>>,
              out |-> <<>>]
        ELSE [raised |-> FALSE,
              appended |-> Append(said, SubTool(run.output, <<tool_id_prefix, "_query">>)),
              done |-> <<validated, queried>>, out |-> run.output]

\* lines 300-309: out is a text, so the branch is entered also for an error
\* text, which json.loads refuses; the metrics are appended for every list of
\* rows, the summary only for rows with a month (none for [], KeyError for
\* rows without the key, both swallowed after the metrics were appended)
MetricsMessages(out, year, country) ==
    IF out = <<MonthlyRows>>
    THEN <<SubTool(<<"metrics", year, country>>, <<"manual_metrics">>),
           SubTool(<<"summary">>, <<"manual_summary">>)>>
    ELSE IF out = <<"[rows]">>
    THEN <<SubTool(<<"metrics", year, country>>, <<"manual_metrics">>)>>
    ELSE <<>>

\* the question the deterministic part works on, line 286
TrendsQuestion == subMessages[1].content

\* one guarded run of the monthly query, lines 296-309 and 312-325
ManualTrends(guard, then) ==
    \E backend \in BackendOutcomes :
        LET year == YearOf(TrendsQuestion)
            country == CountryOf(TrendsQuestion)
            r == _run_validated_sql_and_append(_build_trends_sql(year, country),
                                               "manual_trends", backend)
        IN  IF ~guard
            THEN subPc' = then /\ UNCHANGED <<subMessages, toolLog>>
            ELSE /\ toolLog' = toolLog \o r.done
                 /\ IF r.raised
                    THEN subPc' = "raised" /\ UNCHANGED subMessages
                    ELSE /\ subPc' = then
                         /\ subMessages' = subMessages \o r.appended
                                               \o MetricsMessages(r.out, year, country)

\* lines 296-309, once the trends graph has returned
first_guard ==
    /\ subPc = "END"
    /\ ManualTrends(~_has_tool_message(subMessages) /\ ~ddl_like(TrendsQuestion),
                    "second_guard")
    /\ UNCHANGED <<subSteps, reasonLog, valVars, exVars, rtVars, graphVars>>

\* the queries of lines 329-409, in order
AugmentKinds ==
    <<"manual_gender", "manual_age", "manual_categories",
      "manual_products_under_threshold", "manual_cities", "manual_price_bands">>

Augments(question) == StartsWithAnalyze(question) /\ ~ddl_like(question)

\* lines 311-325
second_guard ==
    /\ subPc = "second_guard"
    /\ ManualTrends(/\ analyze_like(TrendsQuestion)
                    /\ ~ddl_like(TrendsQuestion)
                    /\ ~_has_timeseries(subMessages),
                    IF Augments(TrendsQuestion) THEN AugmentKinds[1] ELSE "top_categories")
    /\ UNCHANGED <<subSteps, reasonLog, valVars, exVars, rtVars, graphVars>>

\* one query of lines 329-409
AugmentSql(kind, question) ==
    IF kind = "manual_categories"
    THEN _build_categories_sql_optional_country(
             YearOf(question), _extract_year_and_country(question).country)
    ELSE QueryText(kind, YearOf(question), CountryOf(question))

augment ==
    /\ \E k \in DOMAIN AugmentKinds, backend \in BackendOutcomes :
        LET kind == AugmentKinds[k]
            then == IF k < Len(AugmentKinds) THEN AugmentKinds[k + 1] ELSE "top_categories"
            r == _run_validated_sql_and_append(AugmentSql(kind, TrendsQuestion), kind, backend)
        IN  /\ subPc = kind
            /\ IF kind = "manual_products_under_threshold"
                    /\ _parse_under_threshold(TrendsQuestion) = None
               THEN subPc' = then /\ UNCHANGED <<subMessages, toolLog>>
               ELSE /\ toolLog' = toolLog \o r.done
                    /\ IF r.raised
                       THEN subPc' = "raised" /\ UNCHANGED subMessages
                       ELSE subPc' = then /\ subMessages' = subMessages \o r.appended
    /\ UNCHANGED <<subSteps, reasonLog, valVars, exVars, rtVars, graphVars>>

\* lines 411-417
top_categories ==
    /\ subPc = "top_categories"
    /\ \E backend \in BackendOutcomes :
        LET lc == Lower(TrendsQuestion)
            asked == /\ \E i \in DOMAIN lc : lc[i] \in {"identify", "top"}
                     /\ \E i \in DOMAIN lc : lc[i] \in {"category", "categories"}
                     /\ ~ddl_like(TrendsQuestion)
            r == _run_validated_sql_and_append(
                     _build_categories_sql_optional_country(
                         YearOf(TrendsQuestion),
                         _extract_year_and_country(TrendsQuestion).country),
                     "manual_top_categories", backend)
        IN  IF ~asked
            THEN subPc' = "returned" /\ UNCHANGED <<subMessages, toolLog>>
            ELSE /\ toolLog' = toolLog \o r.done
                 /\ IF r.raised
                    THEN subPc' = "raised" /\ UNCHANGED subMessages
                    ELSE subPc' = "returned" /\ subMessages' = subMessages \o r.appended
    /\ UNCHANGED <<subSteps, reasonLog, valVars, exVars, rtVars, graphVars>>

\* the responses of the model the trends graph is explored with
TrendOutcomes ==
    {[raised |-> FALSE,
      msg |-> [content |-> <<FinalAnswer, ":", "[", "1", "]">>, tool_calls |-> <<>>]],
     [raised |-> FALSE,
      msg |-> [content |-> <<>>,
               tool_calls |-> <<ToolCall("query_database", GoodSql, <<"c1">>)>>]],
     [raised |-> FALSE,
      msg |-> [content |-> <<>>,
               tool_calls |-> <<ToolCall("query_database", DropSql, <<"c1">>)>>]],
     [raised |-> TRUE, msg |-> [content |-> <<>>, tool_calls |-> <<>>]]}

\* the run of the trends graph is explored up to a Reason step, an Act step
\* and the Reason step after it
MaxTrendSteps == 3

agent_trends == AgentStep(TrendOutcomes, MaxTrendSteps)
tool_trends == ToolStep(MaxTrendSteps)

InitTrends ==
    /\ subPc = "agent"
    /\ \E question \in TrendQuestions : subMessages = <<SubHuman(question)>>
    /\ subSteps = 0
    /\ toolLog = <<>>
    /\ reasonLog = <<>>
    /\ ValidatorIdle
    /\ ExtractIdle
    /\ RouterIdle
    /\ GraphIdle

\* the turns of one session: the history the channel holds after a turn is the
\* history the next turn starts with, with the question of the next turn at
\* its end; the logs are those of the invocation under way
MaxTrendTurns == 2
MaxTrendHistory == 7

Questions(msgs) == {i \in DOMAIN msgs : msgs[i].type = "human"}

\* the place of the question of the turn under way: the node adds no
\* question, so it is the last one of the history
LatestQuestionAt(msgs) ==
    CHOOSE i \in Questions(msgs) : \A j \in Questions(msgs) : j <= i

\* the history the turn was handed, which is what the channel holds while
\* the node runs
Handed(msgs) == SubSeq(msgs, 1, LatestQuestionAt(msgs))

\* the node returns its whole state, and the reducer of the channel adds the
\* messages returned to the ones held (src/state.py:7), as it adds the
\* question of the next turn; a history that k turns built holds 2^k - 1
\* questions
trends_next_turn ==
    /\ subPc = "returned"
    /\ Cardinality(Questions(subMessages)) < 2 ^ MaxTrendTurns - 1
    /\ Len(subMessages) <= MaxTrendHistory
    /\ \E question \in TrendQuestions :
          subMessages' = MergeMessages(MergeMessages(Handed(subMessages), subMessages),
                                       <<SubHuman(question)>>)
    /\ subPc' = "agent"
    /\ subSteps' = 0
    /\ toolLog' = <<>>
    /\ reasonLog' = <<>>
    /\ UNCHANGED <<valVars, exVars, rtVars, graphVars>>

NextTrends ==
    \/ agent_trends
    \/ tool_trends
    \/ first_guard
    \/ second_guard
    \/ augment
    \/ top_categories
    \/ trends_next_turn

SpecTrends == InitTrends /\ [][NextTrends]_vars

(***************************************************************************)
(* The loop of src/main.py, explored with a few outcomes of the            *)
(* generations only.                                                       *)
(***************************************************************************)
SessionRouteTexts == {<<NextMarker, "trends">>, <<NextMarker, "off_topic">>}
SessionGenerations == {[raised |-> FALSE, content |-> <<"narrative">>]}
SessionReflects == {[k \in 0..(max_retries - 2) |-> TRUE]}

\* every attempt returns a list, or the first one raises and the others return it
SessionAttempts ==
    LET good == [raised |-> FALSE, before |-> <<>>,
                 content |-> <<ReasoningAtom, FinalAnswer, ":", "[", "1", "]">>]
    IN  {[k \in 0..(max_retries - 1) |-> good],
         [k \in 0..(max_retries - 1) |->
              IF k = 0 THEN [raised |-> TRUE, before |-> <<>>, content |-> <<>>]
              ELSE good]}

manager_few == ManagerStep(SessionRouteTexts)
trends_few == RoleStep("trends", "Trends", SessionAttempts, SessionReflects)
synthesis_few == SynthesisStep(SessionGenerations)

\* the lines input() returns
CliLines == {<<"quit">>, <<" ", "Quit", " ">>, <<"exit">>, <<>>, <<" ">>, Prompt}

\* main.py lines 36-58: one pass of the loop up to app.invoke
main_loop ==
    /\ node \in {"prompt", "END", "raised"}
    /\ Len(entered) < MaxPrompts
    /\ \E line \in CliLines :
        LET prompt == Strip(line, {" "}) IN
        /\ entered' = Append(entered, line)
        /\ IF Lower(prompt) = <<"quit">>
           THEN /\ node' = "exited"
                /\ UNCHANGED <<messages, insights, errors, report, next, turn, invokes,
                               path, genLog, stored, seen, handover,
                               valVars, exVars, rtVars, subVars>>
           ELSE IF prompt = <<>>
           THEN UNCHANGED <<node, messages, insights, errors, report, next, turn,
                            invokes, path, genLog, stored, seen, handover,
                            valVars, exVars, rtVars, subVars>>
           ELSE StartTurn(prompt)

NextCli ==
    \/ main_loop
    \/ manager_few
    \/ trends_few
    \/ summarizer_node
    \/ synthesis_few

SpecCli == InitGraph /\ [][NextCli]_vars

(***************************************************************************)
(* The claims.                                                             *)
(***************************************************************************)

C2_TurnCompletesWithReport ==
    /\ node # "raised"
    /\ node = "END" => report # <<>>

\* C3: the decision manager_node writes to state["next"] is always one the
\* conditional edge after the Router can dispatch on.
C3_RouterTotality == routed.called => Dispatchable(routed.next)

\* a query text that contains a mutating keyword, in any case, anywhere
ContainsMutatingKeyword(q) ==
    q.isStr /\ \E i \in DOMAIN q.toks : UpperAtom(q.toks[i]) \in MutatingKeywords

\* C4: for every input that contains a mutating keyword anywhere, whatever
\* follows the keyword, the validator returns an Invalid result.
C4_MutatingAlwaysInvalid ==
    (valResult # "" /\ ContainsMutatingKeyword(sql)) => valResult \in InvalidResults

\* C5: no query text reaches query_database unless the validator was called
\* on that text earlier in the run and returned Valid.
C5_ExecutedOnlyAfterValid ==
    \A i \in DOMAIN toolLog :
        toolLog[i].name = "query_database" =>
            \E j \in 1..(i - 1) :
                /\ toolLog[j].name = "validator"
                /\ toolLog[j].sql = toolLog[i].sql
                /\ toolLog[j].output = <<Valid>>

\* the checks of the validator, each as the validator tests it
Stripped(q) == IF q.isStr THEN Upper(Strip(q.toks, SqlWhitespace)) ELSE <<>>
Fails(check, q) ==
    CASE check = "non-empty" -> Stripped(q) = <<>>
      [] check = "select" -> Stripped(q) = <<>> \/ Stripped(q)[1] # "SELECT"
      [] check = "mutating" ->
            \E k \in MutatingKeywords : Contains(Stripped(q), <<k, " ">>)
      [] check = "join" ->
            /\ Contains(Stripped(q), <<"JOIN">>)
            /\ ~Contains(Stripped(q), <<" ", "ON", " ">>)
      [] check = "namespace" -> ~Contains(Stripped(q), <<NAMESPACE>>)

ReasonOf(check) ==
    CASE check = "non-empty" -> EmptySql
      [] check = "select" -> NotSelect
      [] check = "mutating" -> NonSelectStatement
      [] check = "join" -> JoinMissingOn
      [] check = "namespace" -> MissingNamespace

\* the reason of the earliest failing check of an order, Valid when none fails
FirstFailure(order, q) ==
    LET failing == {i \in DOMAIN order : Fails(order[i], q)} IN
    IF failing = {} THEN Valid ELSE ReasonOf(order[Min(failing)])

ValidAsClaimed(q) ==
    /\ q.isStr
    /\ Stripped(q) # <<>>
    /\ Stripped(q)[1] = "SELECT"
    /\ ~ContainsMutatingKeyword(q)
    /\ Contains(Stripped(q), <<NAMESPACE>>)
    /\ Contains(Stripped(q), <<"JOIN">>) => Contains(Stripped(q), <<"ON">>)

\* C7: the validator returns Valid exactly when the query is non-empty,
\* begins with SELECT, contains no mutating keyword, references the namespace
\* and has an ON condition whenever it has a JOIN; it returns an Invalid
\* result for every other input.
C7_ValidExactlyWhen ==
    valResult # "" =>
        /\ valResult = Valid <=> ValidAsClaimed(sql)
        /\ valResult # Valid => valResult \in InvalidResults

\* C8: no call of query_database raises, whatever fails on the way to the
\* result, and a call makes at most one query to the backend.
C8_ExecutorNeverRaises ==
    \A i \in DOMAIN toolLog :
        toolLog[i].name = "query_database" =>
            ~toolLog[i].raised /\ toolLog[i].queries <= 1

\* C9: the extraction never raises, so that the attempt of the Role Agent
\* is never counted as failed because of the text of its last message.
C9_ExtractorNeverRaises == exOut.called => ~exOut.raised

\* a bracketed list of the text: t[j] opens it and t[k] is the first "]" after
BracketedList(t, j, k) ==
    /\ j \in DOMAIN t /\ k \in DOMAIN t /\ j < k
    /\ t[j] = "[" /\ t[k] = "]"
    /\ \A m \in (j + 1)..(k - 1) : t[m] # "]"

\* a bracketed list that follows the marker, separators only in between
MarkedList(t, j, k) ==
    /\ BracketedList(t, j, k)
    /\ \E i \in 1..(j - 1) :
        t[i] = FinalAnswer /\ \A m \in (i + 1)..(j - 1) : t[m] \in Separators

HasMarkedList(t) == \E j, k \in DOMAIN t : MarkedList(t, j, k)
HasList(t) == \E j, k \in DOMAIN t : BracketedList(t, j, k)
IsInsightsObject(t) == Strip(t, JsonWhitespace) = <<ObjAtom>>

Items == {"1", "s", ObjAtom}

\* C10: the extraction is an ordered chain in which the first matching stage
\* wins: the first bracketed list after the marker if there is one, else the
\* first bracketed list of the text, else the insights field of the text
\* parsed as an object, else the empty list; what it returns is a list.
C10_FirstMatchingStageWins ==
    exOut.called =>
        LET t == last_content IN
        /\ HasMarkedList(t) =>
              /\ exOut.stage = 1
              /\ \E j, k \in DOMAIN t :
                    /\ MarkedList(t, j, k)
                    /\ \A j2, k2 \in DOMAIN t : MarkedList(t, j2, k2) => j <= j2
                    /\ exOut.json_str = SubSeq(t, j, k)
        /\ (~HasMarkedList(t) /\ HasList(t)) =>
              /\ exOut.stage = 2
              /\ \E j, k \in DOMAIN t :
                    /\ BracketedList(t, j, k)
                    /\ \A j2, k2 \in DOMAIN t : BracketedList(t, j2, k2) => j <= j2
                    /\ exOut.json_str = SubSeq(t, j, k)
        /\ (~HasList(t) /\ IsInsightsObject(t)) =>
              exOut.stage = 3 /\ ~exOut.raised /\ exOut.insights_list = <<"s">>
        /\ (~HasList(t) /\ ~IsInsightsObject(t)) =>
              exOut.stage = 4 /\ ~exOut.raised /\ exOut.insights_list = <<>>
        /\ (exOut.stage \in {1, 2} /\ ~exOut.raised) =>
              exOut.insights_list = JsonLoads(exOut.json_str).val
        /\ exOut.insights_list \in Seq(Items)

\* the list after the marker was used although another list comes first
C10_MarkedListWinsOverEarlier ==
    /\ exOut.called /\ ~exOut.raised
    /\ exOut.stage = 1
    /\ exOut.insights_list = <<"1">>
    /\ ArrayMatch(last_content) = <<"[", "]">>

Range(f) == {f[i] : i \in DOMAIN f}

\* C11: whatever the insights and the errors of the turn are, and whether the
\* generation returns a text, returns the empty text or fails, the report
\* synthesis_node sets is a non-empty text.
C11_SynthesizerTotality ==
    "synthesis" \in Range(path) => \E i \in DOMAIN report : report[i] # ""

\* the generation returned the empty text and the report is not empty
C11_EmptyGeneration ==
    /\ node = "END"
    /\ genLog = <<"returned">>
    /\ report[1] = ReasoningTraceHeader

\* C12: with no insight in the turn, the report is the fixed diagnostic
\* message followed by the recorded errors, and synthesis_node makes no call
\* of the generation backend.
C12_NoInsightsDiagnostic ==
    ("synthesis" \in Range(path) /\ insights = <<>>) =>
        /\ genLog = <<>>
        /\ report[1] = NoInsightsPrefix
        /\ Len(report) = Len(errors) + 3
        /\ \A i \in DOMAIN errors : report[i + 2] = errors[i].type

\* a turn without insights and with a recorded error, after the synthesis
C12_NoInsightsWithErrors ==
    /\ node = "END"
    /\ insights = <<>>
    /\ errors # <<>>
    /\ report[1] = NoInsightsPrefix

\* C13: when the generation fails with an insight present, the turn ends
\* normally and the report is the serialized insights, agent and texts of
\* every insight, without any reasoning trace.
C13_RawInsightsOnFailure ==
    genLog = <<"raised">> =>
        /\ node = "END"
        /\ insights # <<>>
        /\ report[1] = SynthesisFailedPrefix
        /\ ReasoningTraceHeader \notin Range(report)
        /\ \A i \in DOMAIN insights :
            /\ insights[i].agent \in Range(report)
            /\ Range(insights[i].text) \subseteq Range(report)
            /\ insights[i].cot # "" => insights[i].cot \notin Range(report)

\* the generation failed in a turn whose insight has a reasoning trace
C13_FailureWithTrace ==
    /\ node = "END"
    /\ genLog = <<"raised">>
    /\ \E i \in DOMAIN insights : insights[i].cot # ""

\* the turn has stopped: no node is left to run
TurnStopped == node \in {"END", "raised"}

\* C14: in every turn synthesis_node runs at most once, at most one of the
\* four role nodes runs and it runs at most once, and a turn stops only at
\* the exit, reached from synthesis_node.
C14_GraphPath ==
    /\ Cardinality({i \in DOMAIN path : path[i] = "synthesis"}) <= 1
    /\ Cardinality({i \in DOMAIN path : path[i] \in RoleNodes}) <= 1
    /\ TurnStopped => (node = "END" /\ path[Len(path)] = "synthesis")

\* C15: when every attempt of the Role Agent has failed, the turn has the
\* errors entry of the failure and also a fallback insight in insights.
C15_ExhaustionSurfaces ==
    (\E i \in DOMAIN errors : errors[i].type = "fallback") =>
        \E j \in DOMAIN insights : FallbackText \in Range(insights[j].text)

\* C16: whenever the report of a turn is the 'No insights generated'
\* message, the errors of the turn are empty.
C16_NoInsightsMeansNoErrors ==
    (node = "END" /\ report[1] = NoInsightsPrefix) => errors = <<>>

\* the routing response of the turn holds the off-topic marker
OffTopicTurn ==
    /\ routed.called /\ ~response.raised
    /\ \E i \in DOMAIN response.content :
        /\ response.content[i] = NextMarker
        /\ i < Len(response.content)
        /\ response.content[i + 1] = "off_topic"

\* C17: on an off-topic routing response the turn has exactly one insight,
\* the explanation attributed to the Manager, the decision is synthesis, and
\* the turn goes from manager_node to synthesis_node with no run of a Role
\* Agent.
C17_OffTopicToSynthesis ==
    OffTopicTurn =>
        /\ routed.next = <<"synthesis">>
        /\ Len(insights) = 1
        /\ insights[1].agent = "Manager"
        /\ invokes = 0
        /\ path \in {<<"manager">>, <<"manager", "synthesis">>}
        /\ node \in {"synthesis", "END"}

\* an off-topic turn that has reached the exit
C17_OffTopicTurnEnded == OffTopicTurn /\ node = "END" /\ genLog # <<>>

\* the routing response of the turn asks for a clarification
ClarifyTurn ==
    /\ routed.called /\ ~response.raised /\ ~OffTopicTurn
    /\ ClarifyMarker \in Range(response.content)

\* C18: on a clarification response the turn reaches the exit through
\* synthesis_node with no run of a Role Agent, and its report is the
\* clarification question of the response.
C18_ClarificationIsReport ==
    (ClarifyTurn /\ node = "END") =>
        /\ invokes = 0
        /\ path = <<"manager", "synthesis">>
        /\ Contains(report, response.content)

\* the response has no "next: " with text after it and no "Clarify:"
Unparsable(c) ==
    /\ ClarifyMarker \notin Range(c)
    /\ ~\E i \in DOMAIN c :
        c[i] = NextMarker /\ \E j \in (i + 1)..Len(c) : c[j] # " "

\* C19: when the routing call fails, or its response has no routing marker,
\* no off-topic marker and no clarification marker, the decision is synthesis
\* and nothing else is recorded.
C19_SafeDefault ==
    (routed.called /\ (response.raised \/ Unparsable(response.content))) =>
        routed.next = <<"synthesis">> /\ routed.insights = <<>>

\* a response of words and a marker with nothing after it, routed to synthesis
C19_GibberishRouted ==
    /\ routed.called /\ ~response.raised
    /\ response.content = <<"zz", NextMarker, " ">>
    /\ routed.next = <<"synthesis">>

\* C20: using up the step budget never makes the run of the Role Agent
\* raise: no run ends in GraphRecursionError, the run ends with the messages
\* it has so far.
C20_BudgetNonFatal == subPc # "GraphRecursionError"

\* a response with neither a tool call nor the marker "Final Answer:"
NoToolNoMarker(r) ==
    /\ r.tool_calls = <<>>
    /\ ~\E i \in 1..(Len(r.content) - 1) :
          r.content[i] = FinalAnswer /\ r.content[i + 1] = ":"

\* C21: in every run of agent_node the model is called once, or twice with
\* one follow-up instruction exactly when the first response has neither a
\* tool call nor the final-answer marker; never more than twice; and when the
\* second response is degenerate as well the run of the Role Agent ends.
C21_DegenerateResponse ==
    \A k \in DOMAIN reasonLog :
        LET e == reasonLog[k] IN
        /\ Len(e.calls) \in {1, 2}
        /\ Len(e.calls) = 1 + e.followups
        /\ e.followups = 1 <=> (~e.calls[1].raised /\ NoToolNoMarker(e.calls[1].msg))
        /\ (Len(e.calls) = 2 /\ ~e.calls[2].raised /\ NoToolNoMarker(e.calls[2].msg))
               => e.goto = "END"

\* a Reason step with two degenerate responses, after which the run is over
C21_TwoDegenerateResponses ==
    /\ subPc = "END"
    /\ reasonLog # <<>>
    /\ Len(reasonLog[Len(reasonLog)].calls) = 2
    /\ NoToolNoMarker(reasonLog[Len(reasonLog)].calls[2].msg)

\* the Act step has run for the tool calls of message i
ActDone(i) ==
    /\ subMessages[i].type = "ai"
    /\ subMessages[i].tool_calls # <<>>
    /\ i < Len(subMessages) \/ subPc # "tool"

\* C22: after the Act step for a response, each of its tool calls, whatever
\* tool it names, has one tool message with its id, the tool messages follow
\* the response in the order of the calls.
C22_OneResultPerCall ==
    \A i \in DOMAIN subMessages :
        ActDone(i) =>
            \A k \in DOMAIN subMessages[i].tool_calls :
                /\ i + k <= Len(subMessages)
                /\ subMessages[i + k].type = "tool"
                /\ subMessages[i + k].tool_call_id = subMessages[i].tool_calls[k].id

\* the question of the run holds the statement DROP TABLE orders
DropQuestion == Contains(TrendsQuestion, <<"DROP", " ", "TABLE", " ", "orders">>)

\* C23: in a run of trends_node on a question that holds DROP TABLE orders
\* no query is executed successfully: none of the deterministic queries is
\* run and no call of query_database returns rows.
C23_NoExecutionOnDrop ==
    DropQuestion =>
        /\ \A i \in DOMAIN subMessages :
              subMessages[i].type = "tool" => subMessages[i].tool_call_id[1] \in {"c1", "c2"}
        /\ \A i \in DOMAIN toolLog :
              toolLog[i].name = "query_database" =>
                  toolLog[i].raised \/ toolLog[i].output[1] = "Error: "

\* the failures of the turn so far: the attempts of the Role Agent that did
\* not succeed, the generations of the Router and the Synthesizer that raised
FailedAttempts == invokes - Cardinality({i \in DOMAIN errors : errors[i].type = "success"})
FailedGenerations ==
    Cardinality({i \in DOMAIN genLog : genLog[i] = "raised"})
        + (IF response.raised THEN 1 ELSE 0)
LoggedFailures == Cardinality({i \in DOMAIN errors : errors[i].type # "success"})

\* C24: at the end of a turn errors holds an entry for every failure of the
\* turn: every failed attempt of the Role Agent and every failed generation.
C24_EveryFailureLogged ==
    node = "END" => LoggedFailures >= FailedAttempts + FailedGenerations

\* the state a turn starts from: the input is written and no node has run
TurnStarts == node = "manager" /\ path = <<>>

\* C25: the state each turn starts from has empty insights, empty errors and
\* an empty report, whatever the checkpoint of the thread held.
C25_TurnStartsClean ==
    TurnStarts => insights = <<>> /\ errors = <<>> /\ report = <<>>

\* a second turn starts on a checkpoint that holds insights, errors and a report
C25_SecondTurnAfterFullTurn ==
    /\ TurnStarts
    /\ turn = 2
    /\ stored.insights # <<>>
    /\ stored.errors # <<>>
    /\ stored.report # <<>>
    /\ Len(messages) > 1

\* C26: every attempt of a Role Agent is handed at most 10 messages and the
\* Synthesizer at most 5.
C26_AtMostTen ==
    \A i \in DOMAIN seen :
        seen[i].count <= (IF seen[i].to = "synthesis" THEN 5 ELSE 10)

ExitWords == {<<"exit">>, <<"quit">>}

\* the lines entered that are prompts: not blank, and neither exit nor quit
PromptsEntered ==
    {i \in DOMAIN entered :
        /\ Strip(entered[i], {" "}) # <<>>
        /\ Lower(Strip(entered[i], {" "})) \notin ExitWords}

\* C28: a line exit or quit ends the loop without a turn, and every other
\* prompt entered runs one turn: the turns run are as many as the prompts
\* entered, and after exit or quit the loop has ended.
C28_ExitOrQuitEndsLoop ==
    /\ turn = Cardinality(PromptsEntered)
    /\ \A i \in DOMAIN entered :
          Lower(Strip(entered[i], {" "})) \in ExitWords =>
              i = Len(entered) /\ node = "exited"

\* C29: report is empty in every state of a turn before synthesis_node has
\* run, only synthesis_node writes it, and no node changes it afterwards in
\* the turn: within a turn report changes in the step of synthesis_node only.
C29_ReportWrittenBySynthesisOnly ==
    /\ []((\A i \in DOMAIN path : path[i] # "synthesis") => report = <<>>)
    /\ [][(turn' = turn /\ report' # report) => (node = "synthesis" /\ node' = "END")]_vars

\* synthesis_node has written the report of a turn that went through a Role
\* Agent and the summarizer
C29_ReportAfterSummarizer ==
    /\ node = "END"
    /\ report # <<>>
    /\ Len(path) = 4
    /\ path[3] = "summarizer"

\* s is a prefix of t
IsPrefix(s, t) == Len(s) <= Len(t) /\ SubSeq(t, 1, Len(s)) = s

\* C30: errors and insights are append-only within a turn: in every step of a
\* node the previous value of each list is a prefix of its new value.
C30_AppendOnly ==
    [][turn' = turn => IsPrefix(errors, errors') /\ IsPrefix(insights, insights')]_vars

\* a turn in which both lists were appended to has reached its end
C30_BothAppended ==
    /\ node = "END"
    /\ errors # <<>>
    /\ insights # <<>>
    /\ turn = 2

\* the name a role node writes into its insight, lines 153, 162, 171, 180
RoleName(n) ==
    CASE n = "segmentation" -> "Segmentation"
      [] n = "trends" -> "Trends"
      [] n = "geo" -> "Geo"
      [] n = "product" -> "Product"

\* a Role Agent node has just run and the list it extracted from the agent's
\* final text is empty: the message it returned last is {"insights": []}
EmptyExtraction ==
    /\ node \in {"summarizer", "synthesis"}
    /\ Len(path) = 2
    /\ path[2] \in RoleNodes
    /\ messages[Len(messages)].content = DumpsInsights(<<>>, "")

\* C31: an empty extraction is a success: the attempt that yielded it is the
\* last one, errors holds one success entry with its index and no fallback
\* entry, and one insight with an empty list of records is appended.
C31_EmptyExtractionSucceeds ==
    EmptyExtraction =>
        /\ errors = <<[type |-> "success", agent |-> errors[1].agent,
                       retry |-> invokes - 1]>>
        /\ Len(insights) = 1
        /\ insights[1].agent = RoleName(path[2])
        /\ errors[1].agent = str(path[2] \o "_agent")
        /\ insights[1].text = <<>>

\* the first attempt yielded an empty list and the node went on to synthesis
C31_EmptyAtFirstAttempt == EmptyExtraction /\ invokes = 1 /\ node = "synthesis"

\* C32: the input of every call of the model in a Reason step, also after an
\* Act step, holds the question the run was started with.
C32_InputHoldsQuestion ==
    \A k \in DOMAIN reasonLog :
        \A c \in DOMAIN reasonLog[k].inputs :
            Contains(reasonLog[k].inputs[c], subMessages[1].content)

\* C33: the prompt the Synthesizer sends to the generation backend holds no
\* reasoning trace (cot) of any insight.
C33_NoCotInPrompt ==
    \A k \in DOMAIN seen :
        seen[k].to = "synthesis" =>
            \A i \in DOMAIN insights :
                insights[i].cot # "" =>
                    \A j \in DOMAIN seen[k].prompt : seen[k].prompt[j] # insights[i].cot

\* attempt number k of the call fails: agent.invoke raises or the extraction does
AttemptFails(k) ==
    retryCall.outcomes[k].raised \/ ExtractInsights(retryCall.outcomes[k].content).raised

\* what C34 says of a call that returned
ReturnedAsClaimed ==
    LET r == retryCall.result
        n == retryCall.retries
    IN  /\ r.invoked <= n
        /\ r.reflections <= n - 1
        /\ \A k \in 0..(r.invoked - 2) : AttemptFails(k)
        /\ IF r.success
           THEN /\ ~AttemptFails(r.invoked - 1)
                /\ r.reflections = r.invoked - 1
                /\ r.errors = Append(retryCall.errors,
                                     [type |-> "success", agent |-> str("trends_agent"),
                                      retry |-> r.invoked - 1])
           ELSE /\ r.invoked = n
                /\ AttemptFails(n - 1)
                /\ r.reflections = n - 1
                /\ r.errors = Append(retryCall.errors,
                                     [type |-> "fallback", agent |-> str("trends_agent"),
                                      retry |-> n])

\* C34: a call of invoke_sub_agent with max_retries >= 1 always returns, after
\* at most max_retries calls of the agent and max_retries - 1 reflections,
\* with the first successful attempt or the fallback after max_retries
\* failures, and with exactly one entry added to errors.
C34_AlwaysReturnsOneEntry ==
    /\ retryCall.pc # "raised"
    /\ retryCall.pc = "returned" => ReturnedAsClaimed

\* the third attempt succeeds after two failed ones and two reflections, on a
\* history longer than the 10 messages kept and errors that held an entry
C34_SucceededAtThirdAttempt ==
    /\ retryCall.pc = "returned"
    /\ retryCall.retries = 3
    /\ Len(retryCall.messages) > 10
    /\ retryCall.errors # <<>>
    /\ retryCall.result.success
    /\ retryCall.result.invoked = 3
    /\ retryCall.result.reflections = 2
    /\ Len(retryCall.result.errors) = 2

\* the positions of the user's message of the current turn in the history
UserMessageAt ==
    {i \in DOMAIN messages : messages[i] = HumanMessage(Prompt \o <<ToString(turn)>>)}

\* C35: a node adds to the history only the messages it produced, so the
\* user's message of the turn occurs exactly once in the history while the
\* Router and the Role Agent nodes run.
C35_UserMessageOnce ==
    (turn >= 1 /\ node # "END") => Cardinality(UserMessageAt) = 1

\* the runs of the monthly query in the invocation: the messages that carry
\* its text, its validations and its executions
ManualTrendsSql ==
    {i \in DOMAIN subMessages :
        /\ i > LatestQuestionAt(subMessages)
        /\ subMessages[i].type = "tool"
        /\ subMessages[i].tool_call_id = <<"manual_trends", "_sql">>}
ManualTrendsCalls(name) ==
    {i \in DOMAIN toolLog :
        /\ toolLog[i].name = name
        /\ toolLog[i].sql = _build_trends_sql(YearOf(TrendsQuestion),
                                              CountryOf(TrendsQuestion))}

\* C36: within one invocation of trends_node the monthly query is validated
\* and executed at most once.
C36_ManualTrendsAtMostOnce ==
    /\ Cardinality(ManualTrendsSql) <= 1
    /\ Cardinality(ManualTrendsCalls("validator")) <= 1
    /\ Cardinality(ManualTrendsCalls("query_database")) <= 1

\* the first guard ran the query for a question about trends, its execution
\* failed, and the invocation has passed the second guard and returned
C36_FirstGuardRanAndFailed ==
    /\ subPc = "returned"
    /\ analyze_like(TrendsQuestion)
    /\ Cardinality(ManualTrendsSql) = 1
    /\ \E i \in ManualTrendsCalls("query_database") : toolLog[i].output[1] = "Error: "
    /\ \A i \in DOMAIN subMessages :
          subMessages[i].type = "tool" => subMessages[i].tool_call_id[1] = "manual_trends"

\* the question of the turn under way, and the deterministic queries a
\* question gives with its year and its country
LatestQuestion == subMessages[LatestQuestionAt(subMessages)].content
DeterministicQueries(question) ==
    {_build_trends_sql(YearOf(question), CountryOf(question)),
     _build_categories_sql_optional_country(
         YearOf(question), _extract_year_and_country(question).country)}
        \cup {AugmentSql(AugmentKinds[k], question) : k \in DOMAIN AugmentKinds}
ReActQueries == {GoodSql, DropSql}

\* C37: in every turn of a session the deterministic queries of trends_node
\* carry the year and the country of the question of that turn, the latest
\* question of the history.
C37_QueriesOfLatestQuestion ==
    \A i \in DOMAIN toolLog :
        toolLog[i].sql \notin ReActQueries
            => toolLog[i].sql \in DeterministicQueries(LatestQuestion)

====
